---- MODULE Spec2Model ----
(***************************************************************************)
(* Model of lettre's MIME-Version header codec                             *)
(* (src/message/header/special.rs): the MimeVersion value type, its        *)
(* parse_header / fmt_header implementations and the header collection     *)
(* round trips exercised by its tests.                                     *)
(*                                                                         *)
(* Text is a sequence of bytes (0..255).  Bytes used below:                *)
(*   32 ' '   43 '+'   45 '-'   46 '.'   48..57 '0'..'9'   97 'a'          *)
(*   195 169 = the two-byte UTF-8 encoding of U+00E9                       *)
(***************************************************************************)
EXTENDS Integers, Sequences, FiniteSets, TLC

VARIABLES pc, origin, raw, result, value, line

vars == <<pc, origin, raw, result, value, line>>

\* ------------------------------------------------------------------ bounds

\* Longest raw value drawn as arbitrary text.
MaxLen == 5

\* Most raw values a field holds.
MaxLines == 3

\* Most zeros put in front of a component of a zero-padded spelling.
MaxPad == 2

\* ------------------------------------------------------- program constants

\* u8::MAX, the width of MimeVersion's fields.
U8Max == 255

\* The bytes arbitrary raw values are drawn from:
\* ' ' '+' '-' '.' '0' '1' '2' '5' '6' 'a' 0xA9 0xC3.
Alphabet == {32, 43, 45, 46, 48, 49, 50, 53, 54, 97, 169, 195}

\* The raw values of a field holding several:
\* "1.0", "0.1", "", "1", "a.0" and a lone 0xC3.
ManyLines ==
    {<<49, 46, 48>>, <<48, 46, 49>>, <<>>, <<49>>, <<97, 46, 48>>, <<195>>}

None == [kind |-> "None"]

\* ---------------------------------------------------------------- results

Ok(v) == [kind |-> "Ok", val |-> v]

Err(e) == [kind |-> "Err", err |-> e]

\* ------------------------------------------------------------ MimeVersion

new(major, minor) == [major |-> major, minor |-> minor]

MIME_VERSION_1_0 == new(1, 0)

major(self) == self.major

minor(self) == self.minor

\* Faulty variant: the all-zero value a derived Default would give.
default_derived == new(0, 0)

default == MIME_VERSION_1_0

header_name == <<77, 73, 77, 69, 45, 86, 101, 114, 115, 105, 111, 110>>

\* ------------------------------------------------- raw.one()  (RawLike)

\* Faulty variant: the first raw value whenever there is one.
one_first(r) == IF Len(r) >= 1 THEN [kind |-> "Some", val |-> r[1]] ELSE None

\* The single raw value when the field holds exactly one, else nothing.
one(r) == IF Len(r) = 1 THEN [kind |-> "Some", val |-> r[1]] ELSE None

\* ------------------------------------------------------------- from_utf8

IsCont(b) == b \in 128..191

\* Length of the well-formed UTF-8 sequence at the head of b, 0 when the
\* head is not one.
SeqLenAt(b) ==
    LET x == b[1] IN
    IF x < 128 THEN 1
    ELSE IF x \in 194..223
        THEN IF Len(b) >= 2 /\ IsCont(b[2]) THEN 2 ELSE 0
    ELSE IF x \in 224..239
        THEN IF /\ Len(b) >= 3
                /\ b[2] \in (IF x = 224 THEN 160..191
                             ELSE IF x = 237 THEN 128..159 ELSE 128..191)
                /\ IsCont(b[3])
             THEN 3 ELSE 0
    ELSE IF x \in 240..244
        THEN IF /\ Len(b) >= 4
                /\ b[2] \in (IF x = 240 THEN 144..191
                             ELSE IF x = 244 THEN 128..143 ELSE 128..191)
                /\ IsCont(b[3])
                /\ IsCont(b[4])
             THEN 4 ELSE 0
    ELSE 0

RECURSIVE Utf8Valid(_)
Utf8Valid(b) ==
    IF b = <<>> THEN TRUE
    ELSE LET n == SeqLenAt(b) IN
         n > 0 /\ Utf8Valid(SubSeq(b, n + 1, Len(b)))

from_utf8(b) == IF Utf8Valid(b) THEN Ok(b) ELSE Err("Utf8Error")

\* ------------------------------------------------------------ str::split

\* Faulty variant: splitn(2, '.'), the text before the first '.' and all the text
\* after it.
RECURSIVE SplitOnce(_, _)
SplitOnce(s, cur) ==
    IF s = <<>> THEN <<cur>>
    ELSE IF Head(s) = 46 THEN <<cur, Tail(s)>>
    ELSE SplitOnce(Tail(s), Append(cur, Head(s)))

splitn2(s) == SplitOnce(s, <<>>)

\* The segments of s between the '.' bytes, in order; at least one.
RECURSIVE SplitFrom(_, _)
SplitFrom(s, cur) ==
    IF s = <<>> THEN <<cur>>
    ELSE IF Head(s) = 46 THEN <<cur>> \o SplitFrom(Tail(s), <<>>)
    ELSE SplitFrom(Tail(s), Append(cur, Head(s)))

split(s) == SplitFrom(s, <<>>)

\* Faulty variant: a missing segment reads as "0".
next_or_zero(segs, k) ==
    IF k <= Len(segs) THEN [kind |-> "Some", val |-> segs[k]]
    ELSE [kind |-> "Some", val |-> <<48>>]

\* Iterator::next on the split: the k-th segment, or nothing.
next(segs, k) == IF k <= Len(segs) THEN [kind |-> "Some", val |-> segs[k]] ELSE None

\* ------------------------------------------------------ str::parse::<u8>

IsDigit(b) == b \in 48..57

to_digit(b) == b - 48

\* Faulty variant: wrapping arithmetic, no overflow check.
RECURSIVE Accumulate_wrapping(_, _)
Accumulate_wrapping(digits, acc) ==
    IF digits = <<>> THEN [kind |-> "Ok", val |-> acc]
    ELSE IF ~(Head(digits) \in 48..57) THEN [kind |-> "Err", err |-> "InvalidDigit"]
    ELSE Accumulate_wrapping(Tail(digits),
                             (acc * 10 + (Head(digits) - 48)) % (U8Max + 1))

\* The checked accumulation of the digits: every multiply and add is
\* checked against u8::MAX.
RECURSIVE Accumulate(_, _)
Accumulate(digits, acc) ==
    IF digits = <<>> THEN Ok(acc)
    ELSE IF ~IsDigit(Head(digits)) THEN Err("InvalidDigit")
    ELSE IF acc * 10 > U8Max THEN Err("PosOverflow")
    ELSE IF acc * 10 + to_digit(Head(digits)) > U8Max THEN Err("PosOverflow")
    ELSE Accumulate(Tail(digits), acc * 10 + to_digit(Head(digits)))

\* Faulty variant: a component with a leading zero is refused.
parse_u8_strict(src) ==
    IF src = <<>> THEN Err("Empty")
    ELSE IF Len(src) > 1 /\ Head(src) = 48 THEN Err("InvalidDigit")
    ELSE IF src = <<43>> \/ src = <<45>> THEN Err("InvalidDigit")
    ELSE IF Head(src) = 43 THEN Accumulate(Tail(src), 0)
    ELSE Accumulate(src, 0)

\* u8::from_str: empty text and a lone sign are errors, a leading '+' is
\* skipped, '-' is no sign of an unsigned type.
parse_u8(src) ==
    IF src = <<>> THEN Err("Empty")
    ELSE IF src = <<43>> \/ src = <<45>> THEN Err("InvalidDigit")
    ELSE IF Head(src) = 43 THEN Accumulate(Tail(src), 0)
    ELSE Accumulate(src, 0)

\* ---------------------------------------------------------- parse_header

\* Option::ok_or(HeaderError::Header)
ok_or(o) == IF o.kind = "Some" THEN Ok(o.val) ELSE Err("Header")

\* Faulty variant: the inner error is passed on as it is.
map_err_keep(r) == r

\* Result::map_err(|_| HeaderError::Header)
map_err(r) == IF r.kind = "Err" THEN Err("Header") ELSE r

\* The closure given to and_then; each `?` returns the error at once.
parse_one(r) ==
    LET u == map_err(from_utf8(r)) IN
    IF u.kind = "Err" THEN u
    ELSE LET s  == split(u.val)
             mj == ok_or(next(s, 1))
             mn == ok_or(next(s, 2))
         IN
    IF mj.kind = "Err" THEN mj
    ELSE IF mn.kind = "Err" THEN mn
    ELSE LET pmj == map_err(parse_u8(mj.val)) IN
    IF pmj.kind = "Err" THEN pmj
    ELSE LET pmn == map_err(parse_u8(mn.val)) IN
    IF pmn.kind = "Err" THEN pmn
    ELSE Ok(new(pmj.val, pmn.val))

parse_header(r) ==
    LET o == ok_or(one(r)) IN
    IF o.kind = "Err" THEN o ELSE parse_one(o.val)

\* ------------------------------------------------------------ fmt_header

\* Faulty variant: three digits always, as "{:03}" would print.
Decimal_padded(n) ==
    <<48 + (n \div 100), 48 + ((n \div 10) % 10), 48 + (n % 10)>>

\* Display of a u8: its decimal digits, most significant first.
RECURSIVE Decimal(_)
Decimal(n) ==
    IF n < 10 THEN <<48 + n>>
    ELSE Append(Decimal(n \div 10), 48 + (n % 10))

\* Faulty variant: the two fields in the wrong order.
fmt_header_swapped(self) ==
    Decimal(self.minor) \o <<46>> \o Decimal(self.major)

\* format!("{}.{}", self.major, self.minor)
fmt_header(self) == Decimal(self.major) \o <<46>> \o Decimal(self.minor)

\* Display of a header collection holding only this header.
fmt_line(text) == header_name \o <<58, 32>> \o text \o <<13, 10>>

\* ---------------------------------------------------------------- actions

Init ==
    /\ pc = "start"
    /\ origin = "none"
    /\ raw = <<>>
    /\ result = None
    /\ value = None
    /\ line = None

\* What headers.get::<MimeVersion>() leaves in the collection.
Typed(res) == IF res.kind = "Ok" THEN res.val ELSE None

\* headers.set_raw("MIME-Version", t); headers.get::<MimeVersion>()
ParseOne ==
    /\ pc = "start"
    /\ \E k \in 0..MaxLen : \E t \in [1..k -> Alphabet] :
        /\ raw' = <<t>>
        /\ result' = parse_header(<<t>>)
        /\ value' = Typed(result')
    /\ pc' = "parsed"
    /\ origin' = "raw"
    /\ UNCHANGED line

\* parse_header on a field holding no raw value, or several.
ParseMany ==
    /\ pc = "start"
    /\ \E n \in (0..MaxLines) \ {1} : \E r \in [1..n -> ManyLines] :
        /\ raw' = r
        /\ result' = parse_header(r)
        /\ value' = Typed(result')
    /\ pc' = "parsed"
    /\ origin' = "raw"
    /\ UNCHANGED line

Zeros(n) == [i \in 1..n |-> 48]

\* As ParseOne, on a raw value spelling a version with zeros in front of
\* its components.
ParsePadded ==
    /\ pc = "start"
    /\ \E a, b \in 0..U8Max : \E pa, pb \in 0..MaxPad :
        LET t == Zeros(pa) \o Decimal(a) \o <<46>> \o Zeros(pb) \o Decimal(b) IN
        /\ raw' = <<t>>
        /\ result' = parse_header(<<t>>)
        /\ value' = Typed(result')
    /\ pc' = "parsed"
    /\ origin' = "raw"
    /\ UNCHANGED line

\* headers.set(MimeVersion::new(a, b))
New ==
    /\ pc = "start"
    /\ \E a, b \in 0..U8Max : value' = new(a, b)
    /\ pc' = "typed"
    /\ origin' = "new"
    /\ UNCHANGED <<raw, result, line>>

\* headers.set(MimeVersion::default())
Default ==
    /\ pc = "start"
    /\ value' = default
    /\ pc' = "typed"
    /\ origin' = "default"
    /\ UNCHANGED <<raw, result, line>>

\* format!("{}", headers) of the typed header the collection holds.
FmtHeader ==
    /\ pc \in {"parsed", "typed"}
    /\ value # None
    /\ line' = fmt_header(value)
    /\ pc' = "formatted"
    /\ UNCHANGED <<origin, raw, result, value>>

\* The formatted text presented back as exactly one raw value and parsed.
Reparse ==
    /\ pc = "formatted"
    /\ raw' = <<line>>
    /\ result' = parse_header(<<line>>)
    /\ pc' = "reparsed"
    /\ UNCHANGED <<origin, value, line>>

\* Parsing arbitrary raw fields.
Next == ParseOne \/ ParseMany \/ FmtHeader \/ Reparse

Spec == Init /\ [][Next]_vars

\* Formatting typed values and parsing the text back.
NextTyped == New \/ Default \/ FmtHeader \/ Reparse

SpecTyped == Init /\ [][NextTyped]_vars

\* Parsing zero-padded spellings and arbitrary text, then formatting.
NextPadded == ParsePadded \/ ParseOne \/ FmtHeader \/ Reparse

SpecPadded == Init /\ [][NextPadded]_vars

\* ------------------------------------------------------ the wire grammar

\* DIGITS: a non-empty run of decimal digit bytes.
AllDigits(s) == s # <<>> /\ \A i \in 1..Len(s) : s[i] \in 48..57

\* The base-10 number a run of digits denotes.
RECURSIVE Denotes(_)
Denotes(s) ==
    IF s = <<>> THEN 0
    ELSE 10 * Denotes(SubSeq(s, 1, Len(s) - 1)) + (s[Len(s)] - 48)

\* DIGITS denoting a number of 0..255.
Digits255(s) == AllDigits(s) /\ Denotes(s) <= 255

Before(t, i) == SubSeq(t, 1, i - 1)

After(t, i) == SubSeq(t, i + 1, Len(t))

\* DIGITS "." DIGITS
Conforms(t) ==
    \E i \in 1..Len(t) :
        t[i] = 46 /\ Digits255(Before(t, i)) /\ Digits255(After(t, i))

\* The decimal spelling of n without leading zeros.
Canon(s, n) == AllDigits(s) /\ Denotes(s) = n /\ (Len(s) > 1 => s[1] # 48)

\* The text fmt_header writes for some version: conforming, no leading zeros.
IsCanonical(t) ==
    \E i \in 1..Len(t) :
        /\ t[i] = 46
        /\ Digits255(Before(t, i)) /\ Canon(Before(t, i), Denotes(Before(t, i)))
        /\ Digits255(After(t, i)) /\ Canon(After(t, i), Denotes(After(t, i)))

Dots(t) == {i \in 1..Len(t) : t[i] = 46}

FirstDot(t) == CHOOSE i \in Dots(t) : \A j \in Dots(t) : i <= j

SecondDot(t) ==
    CHOOSE i \in Dots(t) \ {FirstDot(t)} :
        \A j \in Dots(t) \ {FirstDot(t)} : i <= j

\* The major substring: the text before the first '.'.
MajorText(t) == Before(t, FirstDot(t))

\* The minor substring: the text after the first '.', up to the second
\* '.' when there is one.
MinorText(t) ==
    IF Cardinality(Dots(t)) >= 2
    THEN SubSeq(t, FirstDot(t) + 1, SecondDot(t) - 1)
    ELSE After(t, FirstDot(t))

\* "<a>.<b>" of "<a>.<b>.<rest>".
FirstTwo(t) == Before(t, SecondDot(t))

\* A single raw value that decodes as UTF-8 has been parsed.
ParsedText == pc = "parsed" /\ Len(raw) = 1 /\ Utf8Valid(raw[1])

\* A component that denotes a number: digits, with at most a sign in front.
Numeric(s) ==
    \/ AllDigits(s)
    \/ Len(s) >= 2 /\ s[1] \in {43, 45} /\ AllDigits(Tail(s))

NumberOf(s) ==
    IF AllDigits(s) THEN Denotes(s)
    ELSE IF s[1] = 45 THEN 0 - Denotes(Tail(s))
    ELSE Denotes(Tail(s))

\* Empty, non-numeric, or greater than 255.
BadComponent(s) == s = <<>> \/ ~Numeric(s) \/ NumberOf(s) > 255

\* "MIME-Version: 1.0\r\n"
Line_1_0 ==
    <<77, 73, 77, 69, 45, 86, 101, 114, 115, 105, 111, 110,
      58, 32, 49, 46, 48, 13, 10>>

\* "MIME-Version: 0.1\r\n"
Line_0_1 ==
    <<77, 73, 77, 69, 45, 86, 101, 114, 115, 105, 111, 110,
      58, 32, 48, 46, 49, 13, 10>>

\* ---------------------------------------------------------------- claims

\* C1: for every major and minor in 0..255, the text fmt_header writes for
\* MimeVersion::new(major, minor), presented as exactly one raw value,
\* parses successfully to a value equal to MimeVersion::new(major, minor).
C1_RoundTrip ==
    (pc = "reparsed" /\ origin \in {"new", "default"}) =>
        /\ raw = <<fmt_header(value)>>
        /\ result.kind = "Ok"
        /\ result.val = value

C1_Witness ==
    /\ pc = "reparsed"
    /\ origin = "new"
    /\ value = new(255, 10)
    /\ raw = << <<50, 53, 53, 46, 49, 48>> >>
    /\ result = Ok(new(255, 10))

\* C2: when the field holds no raw value, or two or more, parse_header
\* returns the malformed-header error whatever the values are.
C2_ExactlyOne ==
    (pc = "parsed" /\ Len(raw) # 1) =>
        result = Err("Header") /\ value = None

C2_Witness ==
    /\ pc = "parsed"
    /\ raw = << <<49, 46, 48>>, <<49, 46, 48>> >>
    /\ result = Err("Header")

\* C3: fmt_header never fails and writes exactly the decimal major, one
\* '.', and the decimal minor, with no leading zeros, padding or
\* whitespace; a collection holding only this header prints
\* "MIME-Version: <major>.<minor>\r\n".
C3_FormatExact ==
    /\ pc = "typed" => ENABLED FmtHeader
    /\ (pc = "formatted" /\ origin \in {"new", "default"}) =>
        /\ \E i \in 1..Len(line) :
            /\ line[i] = 46
            /\ Canon(Before(line, i), major(value))
            /\ Canon(After(line, i), minor(value))
        /\ fmt_line(line) =
               <<77, 73, 77, 69, 45, 86, 101, 114, 115, 105, 111, 110, 58, 32>>
               \o line \o <<13, 10>>
        /\ value = new(1, 0) => fmt_line(line) = Line_1_0
        /\ value = new(0, 1) => fmt_line(line) = Line_0_1

C3_Witness ==
    /\ pc = "formatted"
    /\ origin = "new"
    /\ value = new(0, 1)
    /\ fmt_line(line) = Line_0_1

\* C4: a raw value is accepted by parse_header only if it has the form
\* DIGITS "." DIGITS, each DIGITS a non-empty run of decimal digits
\* denoting a number of 0..255; any other single raw value is rejected
\* with the malformed-header error.
C4_OnlyWireGrammar ==
    (pc = "parsed" /\ Len(raw) = 1) =>
        IF Conforms(raw[1]) THEN result.kind = "Ok"
        ELSE result = Err("Header")

\* C5: for a single UTF-8 raw value containing a '.', an empty,
\* non-numeric or greater-than-255 major or minor substring gives the
\* malformed-header error, and an accepted value is never truncated or
\* wrapped modulo 256: its fields are the numbers the substrings denote.
C5_ComponentCheck ==
    (ParsedText /\ Dots(raw[1]) # {}) =>
        LET mj == MajorText(raw[1])
            mn == MinorText(raw[1])
        IN
        /\ (BadComponent(mj) \/ BadComponent(mn)) =>
               result = Err("Header") /\ value = None
        /\ result.kind = "Ok" =>
            /\ major(result.val) = NumberOf(mj)
            /\ minor(result.val) = NumberOf(mn)
            /\ major(result.val) \in 0..U8Max
            /\ minor(result.val) \in 0..U8Max

\* "256.0"
C5_Witness ==
    /\ pc = "parsed"
    /\ raw = << <<50, 53, 54, 46, 48>> >>
    /\ result = Err("Header")

\* C6: for a single UTF-8 raw value with no '.', the empty value and a
\* bare number included, parse_header returns the malformed-header
\* error; the minor component does not default to 0.
C6_MissingSeparator ==
    (ParsedText /\ Dots(raw[1]) = {}) =>
        result = Err("Header") /\ value = None

\* "1"
C6_Witness ==
    /\ pc = "parsed"
    /\ raw = << <<49>> >>
    /\ result = Err("Header")

\* C7: every failing parse_header call returns the one error kind
\* HeaderError::Header and no MimeVersion value, whatever made it fail.
C7_UniformError ==
    pc \in {"parsed", "reparsed"} =>
        /\ result.kind \in {"Ok", "Err"}
        /\ result.kind = "Err" =>
            /\ result = Err("Header")
            /\ pc = "parsed" => value = None

\* "1.a": a valid major followed by an invalid minor.
C7_Witness ==
    /\ pc = "parsed"
    /\ raw = << <<49, 46, 97>> >>
    /\ result = Err("Header")
    /\ value = None

\* C8: MimeVersion::default() is MIME_VERSION_1_0, which is
\* MimeVersion::new(1, 0) (major 1, minor 0), and it formats to "1.0".
C8_Default ==
    origin = "default" =>
        /\ value = MIME_VERSION_1_0
        /\ value = new(1, 0)
        /\ major(value) = 1
        /\ minor(value) = 0
        /\ pc \in {"formatted", "reparsed"} => line = <<49, 46, 48>>

C8_Witness ==
    /\ origin = "default"
    /\ pc = "formatted"
    /\ line = <<49, 46, 48>>

\* C9: only the first two segments of the split are consumed: the outcome
\* for "<a>.<b>.<rest>" is the outcome for "<a>.<b>", whatever <rest> is.
C9_ExtraDotsIgnored ==
    (ParsedText /\ Cardinality(Dots(raw[1])) >= 2) =>
        result = parse_header(<<FirstTwo(raw[1])>>)

\* "1.0.a"
C9_Witness ==
    /\ pc = "parsed"
    /\ raw = << <<49, 46, 48, 46, 97>> >>
    /\ result = Ok(new(1, 0))

\* C10: zero-padded spellings of major.minor parse to
\* MimeVersion::new(major, minor); for every accepted raw text s,
\* format(parse(s)) is the canonical text, parse(format(parse(s))) is
\* parse(s), and format(parse(s)) = s only when s is canonical.
C10_Normalises ==
    /\ (pc = "parsed" /\ Len(raw) = 1 /\ Conforms(raw[1])) =>
           result = Ok(new(Denotes(MajorText(raw[1])),
                           Denotes(MinorText(raw[1]))))
    /\ (pc = "formatted" /\ origin = "raw") =>
        /\ result = Ok(value)
        /\ IsCanonical(line)
        /\ (line = raw[1]) <=> IsCanonical(raw[1])
    /\ (pc = "reparsed" /\ origin = "raw") =>
        /\ raw = <<line>>
        /\ result = Ok(value)

\* "001.000" parsed and formatted as "1.0".
C10_Witness ==
    /\ pc = "formatted"
    /\ origin = "raw"
    /\ raw = << <<48, 48, 49, 46, 48, 48, 48>> >>
    /\ value = new(1, 0)
    /\ line = <<49, 46, 48>>

====
